---- MODULE Spec2Model ----
(***************************************************************************)
(* Model of result-ts: the Result<T> class (a success value or a captured  *)
(* failure), the internal Failure marker, and the two runCatching forms.   *)
(*                                                                         *)
(* A JavaScript value is a record [wrap, atom]: wrap = 0 is the plain      *)
(* value named by atom, wrap = n + 1 is a Failure instance whose exception *)
(* is the value [wrap |-> n, atom].  Error objects are the atoms "e1" and  *)
(* "e2" (reference equality is equality of atoms).                         *)
(***************************************************************************)
EXTENDS Naturals, Sequences, FiniteSets, TLC

VARIABLES
    heap,   \* heap[i]: the private readonly field `value` of the i-th Result
    built,  \* built[i]: the static factory call that constructed heap[i]
    last    \* the most recent call: its receiver, arguments, outcome and
            \* the invocations of caller-supplied callbacks it made

vars == <<heap, built, last>>

\* Number of Result instances alive in one behaviour.
MaxObjects == 2

----------------------------------------------------------------------------
\* JavaScript values

V(a) == [wrap |-> 0, atom |-> a]

Undefined == V("undefined")

Null == V("null")

V1 == V("v1")

E1 == V("e1")

E2 == V("e2")

\* if (x) ...: undefined and null are falsy, every object is truthy.
Truthy(value) == value.wrap > 0 \/ value.atom \notin {"undefined", "null"}

\* new Failure(exception)
createFailure(exception) == [wrap |-> exception.wrap + 1, atom |-> exception.atom]

\* value instanceof Failure
InstanceOfFailure(value) == value.wrap > 0

\* value.exception, for a Failure instance
exceptionOf(value) == [wrap |-> value.wrap - 1, atom |-> value.atom]

\* A Failure marker forged outside Result.failure (Failure.ts exports it).
Marker == createFailure(E1)

\* Values a caller passes to Result.success.
Values == {V1, Null, Undefined, Marker}

\* Error objects a caller passes to Result.failure(exception: Error).
Errors == {E1}

\* Values a callback returns: a plain value, nothing (a void function), or a
\* Failure marker.
Returns == {V1, Undefined, Marker}

\* Values a callback throws: `throw` accepts any value, `throw null` included.
Throwables == {E2, Null}

----------------------------------------------------------------------------
\* Caller-supplied callbacks.  kind says what the function does with its
\* argument: "return" returns val, "throw" throws val, "echo" is x => x,
\* "rethrow" is x => { throw x }.  A closure () => transform(v) is the
\* callback transform with bound = TRUE and arg = v.

Cb(role, kind, val) ==
    [role |-> role, kind |-> kind, val |-> val, bound |-> FALSE, arg |-> Undefined]

NoCallback == Cb("none", "return", Undefined)

\* Zero-argument computations handed to runCatching.
Computations(role) ==
    {Cb(role, "return", v) : v \in Returns} \cup {Cb(role, "throw", e) : e \in Throwables}

\* transform: (value: T) => R and transform: (exception: Error) => R
Transforms(role) ==
    {Cb(role, "return", v) : v \in Returns}
        \cup {Cb(role, "throw", E2), Cb(role, "echo", Undefined), Cb(role, "rethrow", Undefined)}

\* action: (value: T) => void and action: (exception: Error) => void
Actions(role) == {Cb(role, "return", Undefined), Cb(role, "throw", E2)}

\* onSuccess: (value: T) => R, onFailure: (exception: Error) => R
FoldCallbacks(role) == {Cb(role, "echo", Undefined), Cb(role, "rethrow", Undefined)}

\* () => transform(v)
Closure(transform, v) == [transform EXCEPT !.bound = TRUE, !.arg = v]

\* The argument the caller's function body sees when cb is called with x.
ArgSeen(cb, x) == IF cb.bound THEN cb.arg ELSE x

\* cb(x): how the call completes.
Apply(cb, x) ==
    CASE cb.kind = "return"  -> [kind |-> "return", val |-> cb.val]
      [] cb.kind = "throw"   -> [kind |-> "throw", val |-> cb.val]
      [] cb.kind = "echo"    -> [kind |-> "return", val |-> ArgSeen(cb, x)]
      [] cb.kind = "rethrow" -> [kind |-> "throw", val |-> ArgSeen(cb, x)]

\* The log entry of the call cb(x).
CallOf(cb, x) == [role |-> cb.role, arg |-> ArgSeen(cb, x)]

----------------------------------------------------------------------------
\* How a call completes: kind "return" or "throw"; obj says whether the
\* returned value is the receiver ("this"), a Result built by a static
\* factory ("new", val its payload) or another value ("none", val).

Returned(val, calls) ==
    [kind |-> "return", obj |-> "none", factory |-> "none", arg |-> Undefined,
     val |-> val, calls |-> calls]

Threw(val, calls) ==
    [kind |-> "throw", obj |-> "none", factory |-> "none", arg |-> Undefined,
     val |-> val, calls |-> calls]

ReturnedThis(calls) ==
    [kind |-> "return", obj |-> "this", factory |-> "none", arg |-> Undefined,
     val |-> Undefined, calls |-> calls]

\* static success<T>(value: T | null = null): the payload of the new Result.
\* The default parameter replaces an undefined argument by null.
success_noDefault(value) == value

success(value) == IF value = Undefined THEN Null ELSE value

\* static failure<T>(exception: Error): the payload of the new Result.
failure_unwrapped(exception) == exception

failure(exception) == createFailure(exception)

NewSuccess(value, calls) ==
    [kind |-> "return", obj |-> "new", factory |-> "success", arg |-> value,
     val |-> success(value), calls |-> calls]

NewFailure(exception, calls) ==
    [kind |-> "return", obj |-> "new", factory |-> "failure", arg |-> exception,
     val |-> failure(exception), calls |-> calls]

----------------------------------------------------------------------------
\* Result<T>: `this` is the payload (the field `value`).

isFailure(this) == InstanceOfFailure(this)

isSuccess_noException(this) == ~Truthy(IF InstanceOfFailure(this) THEN exceptionOf(this) ELSE Null)

isSuccess(this) == ~isFailure(this)

getOrNull(this) == IF isSuccess(this) THEN this ELSE Null

exceptionOrNull(this) == IF InstanceOfFailure(this) THEN exceptionOf(this) ELSE Null

throwOnFailure_truthy(this) ==
    IF Truthy(exceptionOrNull(this))
    THEN Threw(exceptionOrNull(this), <<>>)
    ELSE Returned(Undefined, <<>>)

throwOnFailure(this) ==
    IF InstanceOfFailure(this)
    THEN Threw(exceptionOf(this), <<>>)
    ELSE Returned(Undefined, <<>>)

getOrThrow(this) ==
    IF throwOnFailure(this).kind = "throw"
    THEN throwOnFailure(this)
    ELSE Returned(this, <<>>)

\* The value or the error of the call cb(x), handed on to the caller.
Forward(cb, x) ==
    IF Apply(cb, x).kind = "throw"
    THEN Threw(Apply(cb, x).val, <<CallOf(cb, x)>>)
    ELSE Returned(Apply(cb, x).val, <<CallOf(cb, x)>>)

fold_truthy(this, onSuccessFn, onFailureFn) ==
    IF ~Truthy(exceptionOrNull(this))
    THEN Forward(onSuccessFn, this)
    ELSE Forward(onFailureFn, exceptionOrNull(this))

fold(this, onSuccessFn, onFailureFn) ==
    IF isSuccess(this)
    THEN Forward(onSuccessFn, this)
    ELSE Forward(onFailureFn, exceptionOrNull(this))

\* utils.ts: try { return Result.success(callback()) } catch (e) { return Result.failure(e) }
runCatching_uncaught(callback) ==
    IF Apply(callback, Undefined).kind = "return"
    THEN NewSuccess(Apply(callback, Undefined).val, <<CallOf(callback, Undefined)>>)
    ELSE Threw(Apply(callback, Undefined).val, <<CallOf(callback, Undefined)>>)

runCatching(callback) ==
    IF Apply(callback, Undefined).kind = "return"
    THEN NewSuccess(Apply(callback, Undefined).val, <<CallOf(callback, Undefined)>>)
    ELSE NewFailure(Apply(callback, Undefined).val, <<CallOf(callback, Undefined)>>)

\* Function.prototype.runCatching: the receiver is the computation.
Function_runCatching(fn) ==
    IF Apply(fn, Undefined).kind = "return"
    THEN NewSuccess(Apply(fn, Undefined).val, <<CallOf(fn, Undefined)>>)
    ELSE NewFailure(Apply(fn, Undefined).val, <<CallOf(fn, Undefined)>>)

map_always(this, transform) ==
    IF Apply(transform, this).kind = "throw"
    THEN Threw(Apply(transform, this).val, <<CallOf(transform, this)>>)
    ELSE NewSuccess(Apply(transform, this).val, <<CallOf(transform, this)>>)

map(this, transform) ==
    IF isSuccess(this)
    THEN IF Apply(transform, this).kind = "throw"
         THEN Threw(Apply(transform, this).val, <<CallOf(transform, this)>>)
         ELSE NewSuccess(Apply(transform, this).val, <<CallOf(transform, this)>>)
    ELSE NewFailure(exceptionOrNull(this), <<>>)

mapCatching(this, transform) ==
    IF isSuccess(this)
    THEN runCatching(Closure(transform, this))
    ELSE NewFailure(exceptionOrNull(this), <<>>)

\* const exception = this.exceptionOrNull(); if (exception) ... else return this
recover(this, transform) ==
    IF Truthy(exceptionOrNull(this))
    THEN IF Apply(transform, exceptionOrNull(this)).kind = "throw"
         THEN Threw(Apply(transform, exceptionOrNull(this)).val,
                    <<CallOf(transform, exceptionOrNull(this))>>)
         ELSE NewSuccess(Apply(transform, exceptionOrNull(this)).val,
                         <<CallOf(transform, exceptionOrNull(this))>>)
    ELSE ReturnedThis(<<>>)

recoverCatching(this, transform) ==
    IF Truthy(exceptionOrNull(this))
    THEN runCatching(Closure(transform, exceptionOrNull(this)))
    ELSE ReturnedThis(<<>>)

onFailure_truthy(this, action) ==
    IF Truthy(exceptionOrNull(this))
    THEN IF Apply(action, exceptionOrNull(this)).kind = "throw"
         THEN Threw(Apply(action, exceptionOrNull(this)).val,
                    <<CallOf(action, exceptionOrNull(this))>>)
         ELSE ReturnedThis(<<CallOf(action, exceptionOrNull(this))>>)
    ELSE ReturnedThis(<<>>)

onFailure(this, action) ==
    IF isFailure(this)
    THEN IF Apply(action, exceptionOrNull(this)).kind = "throw"
         THEN Threw(Apply(action, exceptionOrNull(this)).val,
                    <<CallOf(action, exceptionOrNull(this))>>)
         ELSE ReturnedThis(<<CallOf(action, exceptionOrNull(this))>>)
    ELSE ReturnedThis(<<>>)

onSuccess(this, action) ==
    IF isSuccess(this)
    THEN IF Apply(action, this).kind = "throw"
         THEN Threw(Apply(action, this).val, <<CallOf(action, this)>>)
         ELSE ReturnedThis(<<CallOf(action, this)>>)
    ELSE ReturnedThis(<<>>)

----------------------------------------------------------------------------
\* The state machine: one action per public operation.

NoCall ==
    [op |-> "none", self |-> 0, arg |-> Undefined, cb |-> NoCallback,
     cb2 |-> NoCallback, kind |-> "return", ref |-> 0, val |-> Undefined,
     calls |-> <<>>]

Init ==
    /\ heap = <<>>
    /\ built = <<>>
    /\ last = NoCall

\* The call op(arg, cb, cb2) on receiver self completes as r.
Step(op, self, arg, cb, cb2, r) ==
    /\ r.obj = "new" => Len(heap) < MaxObjects
    /\ heap' = IF r.obj = "new" THEN Append(heap, r.val) ELSE heap
    /\ built' = IF r.obj = "new"
                THEN Append(built, [factory |-> r.factory, arg |-> r.arg])
                ELSE built
    /\ last' = [op |-> op, self |-> self, arg |-> arg, cb |-> cb, cb2 |-> cb2,
                kind |-> r.kind,
                ref |-> IF r.kind = "throw" THEN 0
                        ELSE IF r.obj = "new" THEN Len(heap) + 1
                        ELSE IF r.obj = "this" THEN self ELSE 0,
                val |-> r.val, calls |-> r.calls]

DoSuccess ==
    \E v \in Values : Step("success", 0, v, NoCallback, NoCallback, NewSuccess(v, <<>>))

DoFailure ==
    \E e \in Errors : Step("failure", 0, e, NoCallback, NoCallback, NewFailure(e, <<>>))

DoRunCatching ==
    \E c \in Computations("callback") :
        Step("runCatching", 0, Undefined, c, NoCallback, runCatching(c))

DoFunctionRunCatching ==
    \E c \in Computations("callback") :
        Step("Function.runCatching", 0, Undefined, c, NoCallback, Function_runCatching(c))

DoThrowOnFailure ==
    \E i \in DOMAIN heap :
        Step("throwOnFailure", i, Undefined, NoCallback, NoCallback, throwOnFailure(heap[i]))

DoGetOrThrow ==
    \E i \in DOMAIN heap :
        Step("getOrThrow", i, Undefined, NoCallback, NoCallback, getOrThrow(heap[i]))

DoFold ==
    \E i \in DOMAIN heap, s \in FoldCallbacks("onSuccess"), f \in FoldCallbacks("onFailure") :
        Step("fold", i, Undefined, s, f, fold(heap[i], s, f))

DoMap ==
    \E i \in DOMAIN heap, t \in Transforms("transform") :
        Step("map", i, Undefined, t, NoCallback, map(heap[i], t))

DoMapCatching ==
    \E i \in DOMAIN heap, t \in Transforms("transform") :
        Step("mapCatching", i, Undefined, t, NoCallback, mapCatching(heap[i], t))

DoRecover ==
    \E i \in DOMAIN heap, t \in Transforms("transform") :
        Step("recover", i, Undefined, t, NoCallback, recover(heap[i], t))

DoRecoverCatching ==
    \E i \in DOMAIN heap, t \in Transforms("transform") :
        Step("recoverCatching", i, Undefined, t, NoCallback, recoverCatching(heap[i], t))

DoOnFailure ==
    \E i \in DOMAIN heap, a \in Actions("action") :
        Step("onFailure", i, Undefined, a, NoCallback, onFailure(heap[i], a))

DoOnSuccess ==
    \E i \in DOMAIN heap, a \in Actions("action") :
        Step("onSuccess", i, Undefined, a, NoCallback, onSuccess(heap[i], a))

Next ==
    \/ DoSuccess
    \/ DoFailure
    \/ DoRunCatching
    \/ DoFunctionRunCatching
    \/ DoThrowOnFailure
    \/ DoGetOrThrow
    \/ DoFold
    \/ DoMap
    \/ DoMapCatching
    \/ DoRecover
    \/ DoRecoverCatching
    \/ DoOnFailure
    \/ DoOnSuccess

Spec == Init /\ [][Next]_vars

----------------------------------------------------------------------------
\* Shorthands for the claims: the receiver and the result of the last call.

This == heap[last.self]

Res == heap[last.ref]

\* A value that is neither undefined nor a Failure marker.
Ordinary(value) == value # Undefined /\ ~InstanceOfFailure(value)

ReturnedNewResult == last.kind = "return" /\ last.ref \in DOMAIN heap /\ last.ref # last.self

ReturnedReceiver == last.kind = "return" /\ last.ref = last.self

\* C1, as stated: for every value v, undefined and null included, success(v)
\* is a success, is not a failure, getOrNull() is v and exceptionOrNull() is
\* null.
C1_SuccessAnyValue ==
    last.op = "success" =>
        /\ isSuccess(Res)
        /\ ~isFailure(Res)
        /\ getOrNull(Res) = last.arg
        /\ exceptionOrNull(Res) = Null

\* C1, amended: for every value v that is neither undefined nor a Failure
\* marker, success(v) is a success, is not a failure, getOrNull() is v and
\* exceptionOrNull() is null; success(undefined) is such a success of null;
\* success of a Failure marker is a failure carrying the marker's exception.
C1_SuccessContract ==
    last.op = "success" =>
        /\ Ordinary(last.arg) =>
              /\ isSuccess(Res)
              /\ ~isFailure(Res)
              /\ getOrNull(Res) = last.arg
              /\ exceptionOrNull(Res) = Null
        /\ last.arg = Undefined =>
              /\ isSuccess(Res)
              /\ ~isFailure(Res)
              /\ getOrNull(Res) = Null
              /\ exceptionOrNull(Res) = Null
        /\ InstanceOfFailure(last.arg) =>
              /\ isFailure(Res)
              /\ ~isSuccess(Res)
              /\ getOrNull(Res) = Null
              /\ exceptionOrNull(Res) = exceptionOf(last.arg)

C1_Witness ==
    /\ last.op = "success"
    /\ last.arg = Null
    /\ ReturnedNewResult
    /\ isSuccess(Res)

\* C2: for every error e, failure(e) is a failure, is not a success,
\* getOrNull() is null and exceptionOrNull() is the same error e.
C2_FailureContract ==
    last.op = "failure" =>
        /\ ReturnedNewResult
        /\ isFailure(Res)
        /\ ~isSuccess(Res)
        /\ getOrNull(Res) = Null
        /\ exceptionOrNull(Res) = last.arg

C2_Witness ==
    /\ last.op = "failure"
    /\ last.arg = E1
    /\ exceptionOrNull(Res) = E1

\* C3: recover(g) on a failure carrying e, for g returning normally, calls g
\* exactly once with e and returns a success wrapping g(e); on a success it
\* never calls g and returns the receiver itself.  (Stated for transforms
\* whose result is neither undefined nor a Failure marker, the values that
\* Result.success itself does not wrap as given, see C1.)
C3_Recover ==
    last.op = "recover" =>
        /\ ( /\ isFailure(This)
             /\ Apply(last.cb, exceptionOrNull(This)).kind = "return"
             /\ Ordinary(Apply(last.cb, exceptionOrNull(This)).val) ) =>
              /\ last.calls = <<[role |-> "transform", arg |-> exceptionOrNull(This)]>>
              /\ ReturnedNewResult
              /\ isSuccess(Res)
              /\ getOrNull(Res) = Apply(last.cb, exceptionOrNull(This)).val
        /\ isSuccess(This) =>
              /\ last.calls = <<>>
              /\ ReturnedReceiver

\* C4, as stated: both runCatching forms call the computation exactly once
\* and never throw; a returned r gives a success wrapping r, a thrown e a
\* failure carrying e; the two forms give equal outcomes.
C4_RunCatchingAnyReturn ==
    last.op \in {"runCatching", "Function.runCatching"} =>
        /\ last.calls = <<[role |-> "callback", arg |-> Undefined]>>
        /\ ReturnedNewResult
        /\ Apply(last.cb, Undefined).kind = "return" =>
              /\ isSuccess(Res)
              /\ getOrNull(Res) = Apply(last.cb, Undefined).val
        /\ Apply(last.cb, Undefined).kind = "throw" =>
              /\ isFailure(Res)
              /\ exceptionOrNull(Res) = Apply(last.cb, Undefined).val
        /\ runCatching(last.cb) = Function_runCatching(last.cb)
        /\ Res = runCatching(last.cb).val
        /\ Res = Function_runCatching(last.cb).val

\* C4, amended: both runCatching forms call the computation exactly once and
\* never throw; a returned r that is neither undefined nor a Failure marker
\* gives a success wrapping r, a returned undefined a success wrapping null,
\* a returned Failure marker a failure carrying the marker's exception; a
\* thrown e gives a failure carrying e; the two forms give equal outcomes.
C4_RunCatching ==
    last.op \in {"runCatching", "Function.runCatching"} =>
        /\ last.calls = <<[role |-> "callback", arg |-> Undefined]>>
        /\ ReturnedNewResult
        /\ ( /\ Apply(last.cb, Undefined).kind = "return"
             /\ Ordinary(Apply(last.cb, Undefined).val) ) =>
              /\ isSuccess(Res)
              /\ getOrNull(Res) = Apply(last.cb, Undefined).val
        /\ ( /\ Apply(last.cb, Undefined).kind = "return"
             /\ Apply(last.cb, Undefined).val = Undefined ) =>
              /\ isSuccess(Res)
              /\ getOrNull(Res) = Null
        /\ ( /\ Apply(last.cb, Undefined).kind = "return"
             /\ InstanceOfFailure(Apply(last.cb, Undefined).val) ) =>
              /\ isFailure(Res)
              /\ exceptionOrNull(Res) = exceptionOf(Apply(last.cb, Undefined).val)
        /\ Apply(last.cb, Undefined).kind = "throw" =>
              /\ isFailure(Res)
              /\ exceptionOrNull(Res) = Apply(last.cb, Undefined).val
        /\ runCatching(last.cb) = Function_runCatching(last.cb)
        /\ Res = runCatching(last.cb).val
        /\ Res = Function_runCatching(last.cb).val

C4_Witness ==
    /\ last.op = "Function.runCatching"
    /\ last.cb.kind = "throw"
    /\ last.cb.val = E2
    /\ isFailure(Res)
    /\ exceptionOrNull(Res) = E2

\* C5: mapCatching(f) on a success where f throws e2 returns a failure
\* carrying e2 and throws nothing; recoverCatching(g) on a failure where g
\* throws e2 returns a failure carrying e2 and throws nothing (so rethrowing
\* the error gives back a failure carrying the same error).
C5_Catching ==
    /\ ( /\ last.op = "mapCatching"
         /\ isSuccess(This)
         /\ Apply(last.cb, This).kind = "throw" ) =>
          /\ ReturnedNewResult
          /\ isFailure(Res)
          /\ exceptionOrNull(Res) = Apply(last.cb, This).val
    /\ ( /\ last.op = "recoverCatching"
         /\ isFailure(This)
         /\ Apply(last.cb, exceptionOrNull(This)).kind = "throw" ) =>
          /\ last.kind = "return"
          /\ last.ref \in DOMAIN heap
          /\ isFailure(Res)
          /\ exceptionOrNull(Res) = Apply(last.cb, exceptionOrNull(This)).val

\* C6, as stated: map(f) on success(v), for f returning normally, calls f
\* exactly once with v and returns a success equal to success(f(v)); map(f)
\* on failure(e) never calls f and returns a failure carrying the same e.
C6_MapAnyValue ==
    last.op = "map" =>
        /\ ( /\ built[last.self].factory = "success"
             /\ Apply(last.cb, built[last.self].arg).kind = "return" ) =>
              /\ last.calls = <<[role |-> "transform", arg |-> built[last.self].arg]>>
              /\ ReturnedNewResult
              /\ isSuccess(Res)
              /\ Res = success(Apply(last.cb, built[last.self].arg).val)
        /\ built[last.self].factory = "failure" =>
              /\ last.calls = <<>>
              /\ ReturnedNewResult
              /\ isFailure(Res)
              /\ exceptionOrNull(Res) = built[last.self].arg

\* C6, amended: map(f) on success(v), for v neither undefined nor a Failure
\* marker and f returning normally a value that is no Failure marker, calls
\* f exactly once with v and returns a success equal to success(f(v)); on
\* success(undefined) f is called exactly once with null; map(f) on
\* failure(e) never calls f and returns a failure carrying the same e.
C6_Map ==
    last.op = "map" =>
        /\ ( /\ built[last.self].factory = "success"
             /\ Ordinary(built[last.self].arg)
             /\ Apply(last.cb, built[last.self].arg).kind = "return"
             /\ ~InstanceOfFailure(Apply(last.cb, built[last.self].arg).val) ) =>
              /\ last.calls = <<[role |-> "transform", arg |-> built[last.self].arg]>>
              /\ ReturnedNewResult
              /\ isSuccess(Res)
              /\ Res = success(Apply(last.cb, built[last.self].arg).val)
        /\ ( /\ built[last.self].factory = "success"
             /\ built[last.self].arg = Undefined ) =>
              /\ last.calls = <<[role |-> "transform", arg |-> Null]>>
        /\ built[last.self].factory = "failure" =>
              /\ last.calls = <<>>
              /\ ReturnedNewResult
              /\ isFailure(Res)
              /\ exceptionOrNull(Res) = built[last.self].arg

C6_Witness ==
    /\ last.op = "map"
    /\ built[last.self] = [factory |-> "success", arg |-> V1]
    /\ last.cb.kind = "echo"
    /\ Len(last.calls) = 1
    /\ ReturnedNewResult
    /\ getOrNull(Res) = V1

\* C7: getOrThrow() on a success returns the wrapped value and throws
\* nothing, on a failure it throws exactly the captured error and returns
\* nothing; throwOnFailure() throws the captured error on a failure and
\* returns normally, with no value, on a success.
C7_Unwrap ==
    /\ last.op = "getOrThrow" =>
          IF isSuccess(This)
          THEN last.kind = "return" /\ last.val = This /\ last.val = getOrNull(This)
          ELSE last.kind = "throw" /\ last.val = exceptionOrNull(This) /\ last.ref = 0
    /\ last.op = "throwOnFailure" =>
          IF isFailure(This)
          THEN last.kind = "throw" /\ last.val = exceptionOrNull(This)
          ELSE last.kind = "return" /\ last.val = Undefined /\ last.ref = 0

C7_Witness ==
    /\ last.op = "getOrThrow"
    /\ isFailure(This)
    /\ last.kind = "throw"
    /\ last.val = E2

\* C8: every Result built by any sequence of calls is in exactly one of the
\* two states (isFailure is the negation of isSuccess, and it is a failure
\* iff its payload is a Failure marker), and no call changes the payload of
\* an existing Result, so its four getters answer the same before and after.
C8_Classification ==
    [][ /\ \A i \in DOMAIN heap' :
              /\ isFailure(heap'[i]) = ~isSuccess(heap'[i])
              /\ isFailure(heap'[i]) = InstanceOfFailure(heap'[i])
        /\ \A i \in DOMAIN heap :
              /\ i \in DOMAIN heap'
              /\ isSuccess(heap'[i]) = isSuccess(heap[i])
              /\ isFailure(heap'[i]) = isFailure(heap[i])
              /\ getOrNull(heap'[i]) = getOrNull(heap[i])
              /\ exceptionOrNull(heap'[i]) = exceptionOrNull(heap[i]) ]_vars

C8_Witness ==
    /\ last.op = "recoverCatching"
    /\ Len(heap) = 2
    /\ isFailure(heap[1])
    /\ exceptionOrNull(heap[1]) = Null
    /\ isSuccess(heap[2])

\* C9: onSuccess and onFailure, when they return, return the receiver
\* itself, and leave every Result as it was; onSuccess calls its action
\* exactly once with the value on a success and never on a failure,
\* onFailure exactly once with the captured error on a failure and never on
\* a success.
C9_Hooks ==
    [][ /\ last'.op \in {"onSuccess", "onFailure"} =>
              /\ heap' = heap
              /\ last'.kind = "return" => last'.ref = last'.self
              /\ (last'.kind = "throw") =
                    ( /\ Len(last'.calls) = 1
                      /\ Apply(last'.cb, last'.calls[1].arg).kind = "throw" )
        /\ last'.op = "onSuccess" =>
              last'.calls = IF isSuccess(heap[last'.self])
                            THEN <<[role |-> "action", arg |-> heap[last'.self]]>>
                            ELSE <<>>
        /\ last'.op = "onFailure" =>
              last'.calls = IF isFailure(heap[last'.self])
                            THEN <<[role |-> "action",
                                    arg |-> exceptionOrNull(heap[last'.self])]>>
                            ELSE <<>> ]_vars

C9_Witness ==
    /\ last.op = "onFailure"
    /\ isFailure(This)
    /\ exceptionOrNull(This) = Null
    /\ Len(last.calls) = 1
    /\ ReturnedReceiver

\* C10: fold calls exactly one of its two callbacks, exactly once: onSuccess
\* with the value on a success, onFailure with the captured error on a
\* failure; fold completes as that callback does.
C10_Fold ==
    last.op = "fold" =>
        /\ Len(last.calls) = 1
        /\ IF isSuccess(This)
           THEN /\ last.calls = <<[role |-> "onSuccess", arg |-> This]>>
                /\ last.kind = Apply(last.cb, This).kind
                /\ last.val = Apply(last.cb, This).val
           ELSE /\ last.calls = <<[role |-> "onFailure", arg |-> exceptionOrNull(This)]>>
                /\ last.kind = Apply(last.cb2, exceptionOrNull(This)).kind
                /\ last.val = Apply(last.cb2, exceptionOrNull(This)).val

C10_Witness ==
    /\ last.op = "fold"
    /\ isFailure(This)
    /\ exceptionOrNull(This) = Null
    /\ last.calls = <<[role |-> "onFailure", arg |-> Null]>>
    /\ last.cb2.kind = "echo"
    /\ last.kind = "return"
    /\ last.val = Null

====
